---- MODULE Spec2Model ----
(***************************************************************************)
(* A model of contact-control.py, the interactive AWS Ground Station       *)
(* contact scheduling / viewing / cancelling tool.                         *)
(*                                                                         *)
(* Time stamps are whole seconds since midnight UTC of day 0 (the rows the *)
(* program prints are parsed back with "%H:%M:%S%z", which accepts no      *)
(* fractional seconds).  A printed row keeps the UTC date of the start     *)
(* time and the two times of day; parsing a row rebuilds time stamps from  *)
(* these fields only.                                                      *)
(***************************************************************************)
EXTENDS Integers, Sequences, FiniteSets, TLC

VARIABLES pc, task, satellite_NORAD_ID, mission_profile_arn, satellite_arn,
          selected_groundstations, all_passes, pass_list,
          minimum_elevation, whole_duration_answer, contact_seconds,
          suitable_passes, pass_duration_list, choices, selected,
          idx, calls, out, longest_reported, error,
          confirmation_answer, failed_call,
          direction, pass_window_start, pass_window_end, stack, entries

vars == <<pc, task, satellite_NORAD_ID, mission_profile_arn, satellite_arn,
          selected_groundstations, all_passes, pass_list,
          minimum_elevation, whole_duration_answer, contact_seconds,
          suitable_passes, pass_duration_list, choices, selected,
          idx, calls, out, longest_reported, error,
          confirmation_answer, failed_call,
          direction, pass_window_start, pass_window_end, stack, entries>>

\* the state of get_contact_window: its argument, the two module globals,
\* the frames of its recursive calls and the dates entered so far
window_vars == <<direction, pass_window_start, pass_window_end, stack, entries>>

-----------------------------------------------------------------------------
(* Bounds of the environment *)

\* longest contactList one list_contacts call returns in the model
MaxPerStation == 2

-----------------------------------------------------------------------------
(* Time and text helpers (python datetime / str semantics) *)

SecondsPerDay == 24 * 60 * 60

\* datetime.astimezone(utc).date()
DateOf(t) == t \div SecondsPerDay

\* str(datetime.astimezone(utc)).split(" ")[1] : the time of day
TimeOf(t) == t % SecondsPerDay

\* datetime.strptime(date + " " + time, "%Y-%m-%d %H:%M:%S%z")
Strptime(date, time) == date * SecondsPerDay + time

\* timedelta.seconds : the seconds field of a normalised timedelta
TdSeconds(d) == d % SecondsPerDay

DigitChars == <<"0", "1", "2", "3", "4", "5", "6", "7", "8", "9">>

TwoDigits(n) == <<DigitChars[(n \div 10) + 1], DigitChars[(n % 10) + 1]>>

\* str(timedelta) for a duration below one day: "H:MM:SS"
StrTimedelta(d) ==
    LET h == d \div 3600
        m == (d % 3600) \div 60
        s == d % 60
    IN  (IF h < 10 THEN <<DigitChars[h + 1]>> ELSE TwoDigits(h))
        \o <<":">> \o TwoDigits(m) \o <<":">> \o TwoDigits(s)

\* str.split(sep) : non-overlapping occurrences, scanned left to right
RECURSIVE SplitAcc(_, _, _)
SplitAcc(s, sep, cur) ==
    IF Len(s) < Len(sep) THEN <<cur \o s>>
    ELSE IF SubSeq(s, 1, Len(sep)) = sep
         THEN <<cur>> \o SplitAcc(SubSeq(s, Len(sep) + 1, Len(s)), sep, <<>>)
         ELSE SplitAcc(Tail(s), sep, Append(cur, Head(s)))

Split(s, sep) == SplitAcc(s, sep, <<>>)

\* str.ljust(width)
RECURSIVE Ljust(_, _)
Ljust(s, width) == IF Len(s) >= width THEN s ELSE Ljust(Append(s, " "), width)

RECURSIVE LStrip(_)
LStrip(s) == IF s # <<>> /\ Head(s) = " " THEN LStrip(Tail(s)) ELSE s

RECURSIVE RStrip(_)
RStrip(s) ==
    IF s # <<>> /\ s[Len(s)] = " " THEN RStrip(SubSeq(s, 1, Len(s) - 1)) ELSE s

\* str.strip()
Strip(s) == LStrip(RStrip(s))

\* max() of a non-empty list
MaxOf(s) == CHOOSE x \in {s[i] : i \in 1..Len(s)} :
                \A j \in 1..Len(s) : s[j] <= x

\* the elements of s at the positions in I, in list order
RECURSIVE PickFrom(_, _, _)
PickFrom(s, I, i) ==
    IF i > Len(s) THEN <<>>
    ELSE (IF i \in I THEN <<s[i]>> ELSE <<>>) \o PickFrom(s, I, i + 1)

Pick(s, I) == PickFrom(s, I, 1)

-----------------------------------------------------------------------------
(* The ground-station service as the program sees it *)

GroundStations == <<"gs1", "gs2">>

\* ARNs are kept as sequences of tokens because the program splits them on "/"
Satellite ==
    [noradSatelliteID |-> "25544", satelliteArn |-> <<"arn:sat", "/", "25544">>]

\* list_satellites() may answer differently on each call
SatelliteListings == {<<>>, <<Satellite>>}

\* profile names are strings over [ a-zA-Z0-9_:-]; they are kept as
\* sequences of characters because the program splits its rows on "--"
Profiles ==
    { [name |-> <<"p", "1">>, region |-> <<"r">>,
       missionProfileArn |-> <<"arn:mp", "/", "p1">>],
      [name |-> <<"a", "-", "-", "b">>, region |-> <<"r">>,
       missionProfileArn |-> <<"arn:mp", "/", "a--b">>] }

ProfileListings == {<<>>} \cup {<<p>> : p \in Profiles}

\* list_ground_stations(satelliteId) answers
GroundStationListings == {<<>>, GroundStations}

\* contacts and passes known to the service
Catalog ==
    { [contactId |-> "A", groundStation |-> "gs1", maximumElevation |-> 45,
       startTime |-> 9 * 3600,            endTime |-> 9 * 3600 + 600],
      [contactId |-> "B", groundStation |-> "gs1", maximumElevation |-> 80,
       startTime |-> 23 * 3600 + 55 * 60, endTime |-> 24 * 3600 + 5 * 60],
      [contactId |-> "C", groundStation |-> "gs1", maximumElevation |-> 10,
       startTime |-> 10 * 3600,           endTime |-> 10 * 3600 + 621],
      [contactId |-> "D", groundStation |-> "gs2", maximumElevation |-> 45,
       startTime |-> 9 * 3600,            endTime |-> 9 * 3600 + 240],
      [contactId |-> "E", groundStation |-> "gs2", maximumElevation |-> 80,
       startTime |-> 8 * 3600,            endTime |-> 8 * 3600 + 601] }

\* the sequences over S without repetition, of length at most n
SeqsNoRepeat(S, n) ==
    UNION { {s \in [1..k -> S] : \A i, j \in 1..k : i # j => s[i] # s[j]} :
            k \in 0..n }

\* the contactList answers list_contacts may give for one ground station
ContactLists(gs) ==
    SeqsNoRepeat({c \in Catalog : c.groundStation = gs}, MaxPerStation)

\* ElevationValidator: "^[1-8][0-9]?$|^90$"
ElevationValidator(n) == n \in (1..8) \cup (10..89) \cup {90}

\* DurationValidator: "^[1-9]$|^0[1-9]$|^1[0-9]$|^20$"
DurationValidator(n) == n \in 1..20

\* what the user types at the two prompts, as far as the validators let it by
ElevationInputs == {e \in {9, 10, 45, 80, 90} : ElevationValidator(e)}
MinutesInputs == {m \in {0, 4, 10, 20} : DurationValidator(m)}

-----------------------------------------------------------------------------
(* get_satellite_arn, get_mission_profile_arn *)

\* the first listed satellite with that NORAD ID, "" when there is none
get_satellite_arn(satellite_list, norad_ID) ==
    LET hits == SelectSeq(satellite_list,
                          LAMBDA sat : sat.noradSatelliteID = norad_ID)
    IN  IF hits = <<>> THEN <<>> ELSE hits[1].satelliteArn

\* the first listed profile with that name, "" when there is none
get_mission_profile_arn(mission_profile_list, profile_name) ==
    LET hits == SelectSeq(mission_profile_list,
                          LAMBDA profile : profile.name = profile_name)
    IN  IF hits = <<>> THEN <<>> ELSE hits[1].missionProfileArn

\* one choice of get_mission_profile_list
ProfileRow(profile) ==
    Ljust(profile.name, 30) \o <<" ", " ", "-", "-", " ", " ">> \o profile.region

\* profile_answer.split("--")[0].strip()
ProfileNameOfRow(row) == Strip(Split(row, <<"-", "-">>)[1])

-----------------------------------------------------------------------------
(* get_pass_details, print_selected_contacts *)

\* the text row of one pass: the date is the start time's UTC date
PassRow(_pass) ==
    [date             |-> DateOf(_pass.startTime),
     start            |-> TimeOf(_pass.startTime),
     end              |-> TimeOf(_pass.endTime),
     duration         |-> _pass.endTime - _pass.startTime,
     groundStation    |-> _pass.groundStation,
     maximumElevation |-> _pass.maximumElevation]

get_pass_details(passes) == [i \in 1..Len(passes) |-> PassRow(passes[i])]

\* (pass_duration - contact_duration) / 2 with the microseconds removed
ContactOffset(pass_duration, contact_duration) ==
    (pass_duration - contact_duration) \div 2

\* the start, end and ground station handed to reserve_contact for one row
print_selected_contacts(selected_pass, whole, seconds) ==
    IF whole
    THEN [startTime     |-> Strptime(selected_pass.date, selected_pass.start),
          endTime       |-> Strptime(selected_pass.date, selected_pass.end),
          groundStation |-> selected_pass.groundStation]
    ELSE LET pass_duration    == selected_pass.end - selected_pass.start
             contact_duration == 60 * (seconds \div 60)
             contact_offset   == ContactOffset(pass_duration, contact_duration)
             start_time       == TimeOf(selected_pass.start + contact_offset)
             end_time         == TimeOf(selected_pass.end - contact_offset)
         IN  [startTime     |-> Strptime(selected_pass.date, start_time),
              endTime       |-> Strptime(selected_pass.date, end_time),
              groundStation |-> selected_pass.groundStation]

-----------------------------------------------------------------------------
(* get_contacts: merge of the per-station lists *)

RECURSIVE Flatten(_)
Flatten(lists) ==
    IF lists = <<>> THEN <<>> ELSE Head(lists) \o Flatten(Tail(lists))

InsertByStartTimeDedup(sorted, x) ==
    IF \E i \in 1..Len(sorted) : sorted[i].startTime = x.startTime
    THEN sorted
    ELSE LET k == Cardinality({i \in 1..Len(sorted) :
                                  sorted[i].startTime <= x.startTime})
         IN  SubSeq(sorted, 1, k) \o <<x>> \o SubSeq(sorted, k + 1, Len(sorted))

\* x placed behind every element whose start time is not later (stable)
InsertByStartTime(sorted, x) ==
    LET k == Cardinality({i \in 1..Len(sorted) :
                             sorted[i].startTime <= x.startTime})
    IN  SubSeq(sorted, 1, k) \o <<x>> \o SubSeq(sorted, k + 1, Len(sorted))

\* list.sort(key=startTime): a stable sort
RECURSIVE SortByStartTime(_)
SortByStartTime(s) ==
    IF s = <<>> THEN <<>>
    ELSE InsertByStartTime(SortByStartTime(SubSeq(s, 1, Len(s) - 1)), s[Len(s)])

-----------------------------------------------------------------------------
(* schedule_contact: the window filter and the diagnostic *)

ElevationOkStrict(_pass, min_elevation) ==
    _pass.maximumElevation > min_elevation

\* the first test of the filter loop
ElevationOk(_pass, min_elevation) ==
    _pass.maximumElevation >= min_elevation

DurationOkOrEqual(pass_duration, whole, seconds) ==
    whole \/ TdSeconds(pass_duration) >= seconds[1]

\* the second test of the filter loop, for a pass that meets the elevation
DurationOk(pass_duration, whole, seconds) ==
    whole \/ TdSeconds(pass_duration) > seconds[1]

\* the filter loop: the suitable passes, and the durations of the passes
\* that meet the elevation
RECURSIVE WindowFilter(_, _, _, _)
WindowFilter(passes, min_elevation, whole, seconds) ==
    IF passes = <<>> THEN [suitable |-> <<>>, durations |-> <<>>]
    ELSE LET _pass == Head(passes)
             rest  == WindowFilter(Tail(passes), min_elevation, whole, seconds)
             pass_duration == _pass.endTime - _pass.startTime
         IN  IF ElevationOk(_pass, min_elevation)
             THEN [suitable  |-> IF DurationOk(pass_duration, whole, seconds)
                                 THEN <<_pass>> \o rest.suitable
                                 ELSE rest.suitable,
                   durations |-> <<pass_duration>> \o rest.durations]
             ELSE rest

\* str(max(pass_duration_list)).split("0:")[1]
LongestPassText(durations) ==
    Split(StrTimedelta(MaxOf(durations)), <<"0", ":">>)[2]

-----------------------------------------------------------------------------
(* view_contact: the text row of one contact *)

ContactRow(contact) ==
    [date             |-> DateOf(contact.startTime),
     start            |-> TimeOf(contact.startTime),
     end              |-> TimeOf(contact.endTime),
     duration         |-> contact.endTime - contact.startTime,
     groundStation    |-> contact.groundStation,
     maximumElevation |-> contact.maximumElevation,
     contactId        |-> contact.contactId]

\* the records the reconciliation loop of cancel_contact acts on for a row
MatchingContacts(responce, target_contact) ==
    LET target_contact_start_datetime ==
            Strptime(target_contact.date, target_contact.start)
    IN  SelectSeq(responce,
                  LAMBDA contact :
                      contact.startTime = target_contact_start_datetime)

-----------------------------------------------------------------------------
(* The program: control is at pc; "main" is the root menu prompt.  main()  *)
(* never returns (it ends by calling itself, or leaves through quit()), so *)
(* a nested call of main() hands control to the root menu for good.        *)

\* the locals of one menu operation before it has assigned them
Locals(t) ==
    /\ task' = t
    /\ satellite_NORAD_ID' = ""
    /\ mission_profile_arn' = <<>>
    /\ satellite_arn' = <<>>
    /\ selected_groundstations' = <<>>
    /\ all_passes' = <<>>
    /\ pass_list' = <<>>
    /\ minimum_elevation' = 0
    /\ whole_duration_answer' = TRUE
    /\ contact_seconds' = <<>>
    /\ suitable_passes' = <<>>
    /\ pass_duration_list' = <<>>
    /\ choices' = <<>>
    /\ selected' = <<>>
    /\ idx' = 0
    /\ calls' = <<>>
    /\ out' = <<>>
    /\ longest_reported' = <<>>
    /\ error' = "none"
    /\ confirmation_answer' = "none"
    /\ failed_call' = "none"
    /\ UNCHANGED window_vars

Init ==
    /\ pc = "main"
    /\ task = "none"
    /\ satellite_NORAD_ID = ""
    /\ mission_profile_arn = <<>>
    /\ satellite_arn = <<>>
    /\ selected_groundstations = <<>>
    /\ all_passes = <<>>
    /\ pass_list = <<>>
    /\ minimum_elevation = 0
    /\ whole_duration_answer = TRUE
    /\ contact_seconds = <<>>
    /\ suitable_passes = <<>>
    /\ pass_duration_list = <<>>
    /\ choices = <<>>
    /\ selected = <<>>
    /\ idx = 0
    /\ calls = <<>>
    /\ out = <<>>
    /\ longest_reported = <<>>
    /\ error = "none"
    /\ confirmation_answer = "none"
    /\ failed_call = "none"
    /\ direction = "none"
    /\ pass_window_start = <<>>
    /\ pass_window_end = <<>>
    /\ stack = <<>>
    /\ entries = <<>>

\* print(message) and main(): back to the root menu
ToMain(message) ==
    /\ pc' = "main"
    /\ out' = Append(out, message)

\* what a handler around the call would do: note the exception, go on
RaiseCaught(exception) ==
    /\ pc' = "main"
    /\ error' = exception

\* an exception no handler catches ends the process
Raise(exception) ==
    /\ pc' = "crashed"
    /\ error' = exception

\* main: the root menu
Main ==
    /\ pc = "main"
    /\ \E t \in {"Schedule contacts", "View contacts", "Cancel contacts"} :
          /\ pc' = "satellite_question"
          /\ Locals(t)

Quit ==
    /\ pc = "main"
    /\ pc' = "quit"
    /\ UNCHANGED <<window_vars, failed_call, confirmation_answer,
                   longest_reported, task, satellite_NORAD_ID, mission_profile_arn,
                   satellite_arn, selected_groundstations, all_passes,
                   pass_list, minimum_elevation, whole_duration_answer,
                   contact_seconds, suitable_passes, pass_duration_list,
                   choices, selected, idx, calls, out, error>>

\* get_contacts: the satellite selector
SatelliteQuestion ==
    /\ pc = "satellite_question"
    /\ \E satellites \in SatelliteListings :
          IF satellites = <<>>
          THEN /\ ToMain("No onboarded satellites in the region.")
               /\ UNCHANGED satellite_NORAD_ID
          ELSE \/ /\ ToMain("No satellite selected. Exiting to main menu.")
                  /\ UNCHANGED satellite_NORAD_ID
               \/ \E i \in 1..Len(satellites) :
                     /\ satellite_NORAD_ID' = satellites[i].noradSatelliteID
                     /\ pc' = "profile_question"
                     /\ UNCHANGED out
    /\ UNCHANGED <<window_vars, failed_call, confirmation_answer,
                   longest_reported, task, mission_profile_arn, satellite_arn,
                   selected_groundstations, all_passes, pass_list,
                   minimum_elevation, whole_duration_answer, contact_seconds,
                   suitable_passes, pass_duration_list, choices, selected,
                   idx, calls, error>>

\* get_contacts after a profile row was chosen: the two ARN look-ups, each
\* on a fresh listing, and satellite_arn.split("/")[1]
ResolveArns(profile_answer, mission_profile_list, satellite_list) ==
    LET mission_profile_name == ProfileNameOfRow(profile_answer)
        profile_arn == get_mission_profile_arn(mission_profile_list,
                                               mission_profile_name)
        sat_arn == get_satellite_arn(satellite_list, satellite_NORAD_ID)
        messages ==
            (IF profile_arn = <<>> THEN <<"Not a valid profile name">>
                                   ELSE <<>>)
            \o (IF sat_arn = <<>> THEN <<"Not a valid NORAD ID">> ELSE <<>>)
    IN  /\ mission_profile_arn' = profile_arn
        /\ satellite_arn' = sat_arn
        /\ out' = out \o messages
        /\ IF Len(Split(sat_arn, <<"/">>)) < 2
           THEN Raise("IndexError")
           ELSE /\ pc' = "ground_station_question"
                /\ UNCHANGED error

\* get_contacts: the mission profile selector; the listings the look-ups
\* read are those the selectors showed, or have changed since
ProfileQuestion ==
    /\ pc = "profile_question"
    /\ \E profiles \in ProfileListings :
          IF profiles = <<>>
          THEN /\ ToMain("No available mission profiles in this region.")
               /\ UNCHANGED <<mission_profile_arn, satellite_arn, error>>
          ELSE \/ \E i \in 1..Len(profiles) :
                     \/ ResolveArns(ProfileRow(profiles[i]), profiles,
                                    <<Satellite>>)
                     \/ \E mission_profile_list \in ProfileListings,
                           satellite_list \in SatelliteListings :
                           /\ \/ mission_profile_list # profiles
                              \/ satellite_list # <<Satellite>>
                           /\ ResolveArns(ProfileRow(profiles[i]),
                                          mission_profile_list, satellite_list)
               \/ /\ ToMain("No mission profile selected. Exiting to main menu.")
                  /\ UNCHANGED <<mission_profile_arn, satellite_arn, error>>
    /\ UNCHANGED <<window_vars, failed_call, confirmation_answer,
                   longest_reported, task, satellite_NORAD_ID, selected_groundstations,
                   all_passes, pass_list, minimum_elevation,
                   whole_duration_answer, contact_seconds, suitable_passes,
                   pass_duration_list, choices, selected, idx, calls>>

\* get_contacts: the ground station selector
GroundStationQuestion ==
    /\ pc = "ground_station_question"
    /\ \E ground_stations \in GroundStationListings :
          IF ground_stations = <<>>
          THEN /\ ToMain("No onboarded ground stations for this mission profile.")
               /\ UNCHANGED <<selected_groundstations, idx>>
          ELSE \E I \in SUBSET (1..Len(ground_stations)) :
                  /\ selected_groundstations' = Pick(ground_stations, I)
                  /\ IF I = {}
                     THEN /\ ToMain("No ground station selected. Exiting to main menu.")
                          /\ UNCHANGED idx
                     ELSE /\ pc' = "list_contacts"
                          /\ idx' = 1
                          /\ UNCHANGED out
    /\ UNCHANGED <<window_vars, failed_call, confirmation_answer,
                   longest_reported, task, satellite_NORAD_ID, mission_profile_arn,
                   satellite_arn, all_passes, pass_list, minimum_elevation,
                   whole_duration_answer, contact_seconds, suitable_passes,
                   pass_duration_list, choices, selected, calls, error>>

\* get_contacts: one list_contacts call; after the last one the lists are
\* flattened and sorted and get_contacts returns to its caller
ListContacts ==
    /\ pc = "list_contacts"
    /\ LET ground_station == selected_groundstations[idx]
       IN  \E contactList \in ContactLists(ground_station) :
              /\ calls' = Append(calls,
                                 [op                |-> "list_contacts",
                                  groundStation     |-> ground_station,
                                  missionProfileArn |-> mission_profile_arn,
                                  satelliteArn      |-> satellite_arn])
              /\ all_passes' = Append(all_passes, contactList)
              /\ IF idx < Len(selected_groundstations)
                 THEN /\ idx' = idx + 1
                      /\ UNCHANGED <<pc, pass_list>>
                 ELSE /\ idx' = 0
                      /\ pass_list' = SortByStartTime(Flatten(all_passes'))
                      /\ pc' = IF task = "Schedule contacts"
                               THEN "minimum_elevation_question"
                               ELSE "view_contact"
    /\ UNCHANGED <<window_vars, failed_call, confirmation_answer,
                   longest_reported, task, satellite_NORAD_ID, mission_profile_arn,
                   satellite_arn, selected_groundstations, minimum_elevation,
                   whole_duration_answer, contact_seconds, suitable_passes,
                   pass_duration_list, choices, selected, out, error>>

-----------------------------------------------------------------------------
(* schedule_contact *)

MinimumElevationQuestion ==
    /\ pc = "minimum_elevation_question"
    /\ \E e \in ElevationInputs : minimum_elevation' = e
    /\ pc' = "whole_duration"
    /\ UNCHANGED <<window_vars, failed_call, confirmation_answer,
                   longest_reported, task, satellite_NORAD_ID, mission_profile_arn,
                   satellite_arn, selected_groundstations, all_passes,
                   pass_list, whole_duration_answer, contact_seconds,
                   suitable_passes, pass_duration_list, choices, selected,
                   idx, calls, out, error>>

\* the filter loop and what follows it up to the next prompt; seconds is
\* contact_seconds as the questions left it (<<>> while it is unassigned)
FilterPasses(whole, seconds) ==
    LET filtered == WindowFilter(pass_list, minimum_elevation, whole, seconds)
    IN  /\ suitable_passes' = filtered.suitable
        /\ pass_duration_list' = filtered.durations
        /\ IF filtered.suitable # <<>>
           THEN /\ contact_seconds' = IF whole THEN <<0>> ELSE seconds
                /\ choices' = get_pass_details(filtered.suitable)
                /\ pc' = "pass_time_question"
                /\ out' = Append(out, "There are passes that meet the requirements.")
                /\ UNCHANGED <<longest_reported, error>>
           ELSE /\ contact_seconds' = seconds
                /\ UNCHANGED choices
                /\ IF seconds = <<>>
                   THEN \* the message reads contact_seconds, never assigned
                        /\ Raise("UnboundLocalError")
                        /\ UNCHANGED <<out, longest_reported>>
                   ELSE IF filtered.durations = <<>>
                   THEN \* max() of an empty list
                        /\ Raise("ValueError")
                        /\ out' = Append(out, "NO AVAILABLE passes")
                        /\ UNCHANGED longest_reported
                   ELSE /\ pc' = "main"
                        /\ out' = out \o <<"NO AVAILABLE passes",
                                           "The longest pass duration in this window is">>
                        /\ longest_reported' =
                               LongestPassText(filtered.durations)
                        /\ UNCHANGED error

WholeDuration ==
    /\ pc = "whole_duration"
    /\ \E answer \in BOOLEAN :
          /\ whole_duration_answer' = answer
          /\ IF answer
             THEN FilterPasses(TRUE, contact_seconds)
             ELSE /\ pc' = "contact_minutes_question"
                  /\ UNCHANGED <<contact_seconds, suitable_passes,
                                 pass_duration_list, choices, out,
                                 longest_reported, error>>
    /\ UNCHANGED <<window_vars, failed_call, confirmation_answer,
                   task, satellite_NORAD_ID, mission_profile_arn,
                   satellite_arn, selected_groundstations, all_passes,
                   pass_list, minimum_elevation, selected, idx, calls>>

ContactMinutesQuestion ==
    /\ pc = "contact_minutes_question"
    /\ \E contact_minutes \in MinutesInputs :
          FilterPasses(FALSE, <<60 * contact_minutes>>)
    /\ UNCHANGED <<window_vars, failed_call, confirmation_answer,
                   task, satellite_NORAD_ID, mission_profile_arn,
                   satellite_arn, selected_groundstations, all_passes,
                   pass_list, minimum_elevation, whole_duration_answer,
                   selected, idx, calls>>

\* the pass selector; selected holds the positions of the ticked rows
PassTimeQuestion ==
    /\ pc = "pass_time_question"
    /\ \E I \in SUBSET (1..Len(choices)) :
          /\ selected' = Pick([i \in 1..Len(choices) |-> i], I)
          /\ IF I = {}
             THEN ToMain("No passed selected. Exiting to main menu.")
             ELSE /\ pc' = "schedule_confirmation"
                  /\ UNCHANGED out
    /\ UNCHANGED <<window_vars, failed_call, confirmation_answer,
                   longest_reported, task, satellite_NORAD_ID, mission_profile_arn,
                   satellite_arn, selected_groundstations, all_passes,
                   pass_list, minimum_elevation, whole_duration_answer,
                   contact_seconds, suitable_passes, pass_duration_list,
                   choices, idx, calls, error>>

\* a variant that goes on whatever the answer
ContinueAnyway(answer) == TRUE

\* if confirmation_answer["continue"]
Continue(answer) == answer = "yes"

ScheduleConfirmation ==
    /\ pc = "schedule_confirmation"
    /\ \E answer \in {"yes", "no"} :
          /\ confirmation_answer' = answer
          /\ IF Continue(answer)
             THEN /\ pc' = "reserve_contact"
                  /\ idx' = 1
                  /\ UNCHANGED out
             ELSE /\ ToMain("No contacts scheduled. Exiting to main menu.")
                  /\ UNCHANGED idx
    /\ UNCHANGED <<window_vars, failed_call,
                   longest_reported, task, satellite_NORAD_ID, mission_profile_arn,
                   satellite_arn, selected_groundstations, all_passes,
                   pass_list, minimum_elevation, whole_duration_answer,
                   contact_seconds, suitable_passes, pass_duration_list,
                   choices, selected, calls, error>>

\* one turn of the reservation loop; main() follows the last one
ReserveContact ==
    /\ pc = "reserve_contact"
    /\ LET selected_pass == choices[selected[idx]]
           contact == print_selected_contacts(selected_pass,
                                              whole_duration_answer,
                                              contact_seconds[1])
       IN  calls' = Append(calls,
                           [op                |-> "reserve_contact",
                            endTime           |-> contact.endTime,
                            groundStation     |-> contact.groundStation,
                            missionProfileArn |-> mission_profile_arn,
                            satelliteArn      |-> satellite_arn,
                            startTime         |-> contact.startTime])
    /\ IF idx < Len(selected)
       THEN /\ idx' = idx + 1
            /\ UNCHANGED pc
       ELSE /\ idx' = 0
            /\ pc' = "main"
    /\ UNCHANGED <<window_vars, failed_call, confirmation_answer,
                   longest_reported, task, satellite_NORAD_ID, mission_profile_arn,
                   satellite_arn, selected_groundstations, all_passes,
                   pass_list, minimum_elevation, whole_duration_answer,
                   contact_seconds, suitable_passes, pass_duration_list,
                   choices, selected, out, error>>

-----------------------------------------------------------------------------
(* view_contact, cancel_contact *)

\* view_contact after get_contacts has returned; cancel_contact goes on to
\* its selector when there is a row to show
ViewContact ==
    /\ pc = "view_contact"
    /\ choices' = [i \in 1..Len(pass_list) |-> ContactRow(pass_list[i])]
    /\ out' = Append(out, IF pass_list # <<>>
                          THEN "Listing contacts"
                          ELSE "No scheduled contacts with specified parameters.")
    /\ pc' = IF task = "Cancel contacts" /\ pass_list # <<>>
             THEN "cancel_question"
             ELSE "main"
    /\ UNCHANGED <<window_vars, failed_call, confirmation_answer,
                   longest_reported, task, satellite_NORAD_ID, mission_profile_arn,
                   satellite_arn, selected_groundstations, all_passes,
                   pass_list, minimum_elevation, whole_duration_answer,
                   contact_seconds, suitable_passes, pass_duration_list,
                   selected, idx, calls, error>>

\* the contact selector; selected holds the positions of the ticked rows
CancelQuestion ==
    /\ pc = "cancel_question"
    /\ \E I \in SUBSET (1..Len(choices)) :
          /\ selected' = Pick([i \in 1..Len(choices) |-> i], I)
          /\ IF I = {}
             THEN ToMain("No contacts selected. Exiting to main menu.")
             ELSE /\ pc' = "cancel_confirmation"
                  /\ UNCHANGED out
    /\ UNCHANGED <<window_vars, failed_call, confirmation_answer,
                   longest_reported, task, satellite_NORAD_ID, mission_profile_arn,
                   satellite_arn, selected_groundstations, all_passes,
                   pass_list, minimum_elevation, whole_duration_answer,
                   contact_seconds, suitable_passes, pass_duration_list,
                   choices, idx, calls, error>>

CancelConfirmation ==
    /\ pc = "cancel_confirmation"
    /\ \E answer \in {"yes", "no"} :
          /\ confirmation_answer' = answer
          /\ IF Continue(answer)
             THEN /\ pc' = "cancel_contact"
                  /\ idx' = 1
                  /\ UNCHANGED out
             ELSE /\ ToMain("No contacts canceled. Exiting to main menu.")
                  /\ UNCHANGED idx
    /\ UNCHANGED <<window_vars, failed_call,
                   longest_reported, task, satellite_NORAD_ID, mission_profile_arn,
                   satellite_arn, selected_groundstations, all_passes,
                   pass_list, minimum_elevation, whole_duration_answer,
                   contact_seconds, suitable_passes, pass_duration_list,
                   choices, selected, calls, error>>

\* one turn of the outer cancellation loop: a cancel_contact call for every
\* fetched record whose start time is the row's; main() follows the last turn
CancelContact ==
    /\ pc = "cancel_contact"
    /\ LET target_contact == choices[selected[idx]]
           matching == MatchingContacts(pass_list, target_contact)
       IN  calls' = calls \o [k \in 1..Len(matching) |->
                                 [op        |-> "cancel_contact",
                                  contactId |-> matching[k].contactId]]
    /\ IF idx < Len(selected)
       THEN /\ idx' = idx + 1
            /\ UNCHANGED pc
       ELSE /\ idx' = 0
            /\ pc' = "main"
    /\ UNCHANGED <<window_vars, failed_call, confirmation_answer,
                   longest_reported, task, satellite_NORAD_ID, mission_profile_arn,
                   satellite_arn, selected_groundstations, all_passes,
                   pass_list, minimum_elevation, whole_duration_answer,
                   contact_seconds, suitable_passes, pass_duration_list,
                   choices, selected, out, error>>

-----------------------------------------------------------------------------
(* Faults of the ground-station API: there is no try statement in the     *)
(* program, so a call that raises ends the process where it stands.       *)

\* the API calls the step at a program location starts with
ApiCallsAt(location) ==
    CASE location = "satellite_question" -> {"list_satellites"}
      [] location = "profile_question" ->
            {"list_mission_profiles", "list_satellites"}
      [] location = "ground_station_question" -> {"list_ground_stations"}
      [] location = "list_contacts" -> {"list_contacts"}
      [] location = "reserve_contact" -> {"reserve_contact"}
      [] location = "view_contact" ->
            IF pass_list # <<>> THEN {"get_mission_profile"} ELSE {}
      [] location = "cancel_question" -> {"get_mission_profile"}
      [] location = "cancel_contact" ->
            {"get_mission_profile", "cancel_contact"}
      [] OTHER -> {}

\* an API call raises.  In the cancellation loop the fault may come after
\* some records of the current row have been cancelled already.
ApiFault ==
    /\ \E op \in ApiCallsAt(pc) :
          /\ failed_call' = op
          /\ Raise("ClientError")
          /\ IF pc = "cancel_contact"
             THEN LET matching ==
                          MatchingContacts(pass_list, choices[selected[idx]])
                  IN  \E n \in 0..(Len(matching) - 1) :
                         calls' = calls \o
                                  [k \in 1..n |->
                                      [op        |-> "cancel_contact",
                                       contactId |-> matching[k].contactId]]
             ELSE UNCHANGED calls
    /\ UNCHANGED <<window_vars, task, satellite_NORAD_ID, mission_profile_arn,
                   satellite_arn, selected_groundstations, all_passes,
                   pass_list, minimum_elevation, whole_duration_answer,
                   contact_seconds, suitable_passes, pass_duration_list,
                   choices, selected, idx, out, longest_reported,
                   confirmation_answer>>

-----------------------------------------------------------------------------

Next ==
    \/ Main
    \/ Quit
    \/ SatelliteQuestion
    \/ ProfileQuestion
    \/ GroundStationQuestion
    \/ ListContacts
    \/ MinimumElevationQuestion
    \/ WholeDuration
    \/ ContactMinutesQuestion
    \/ PassTimeQuestion
    \/ ScheduleConfirmation
    \/ ReserveContact
    \/ ViewContact
    \/ CancelQuestion
    \/ CancelConfirmation
    \/ CancelContact
    \/ ApiFault

Spec == Init /\ [][Next]_vars

-----------------------------------------------------------------------------
(* Properties *)

ReserveCalls == SelectSeq(calls, LAMBDA c : c.op = "reserve_contact")

CancelCalls == SelectSeq(calls, LAMBDA c : c.op = "cancel_contact")

ListCalls == SelectSeq(calls, LAMBDA c : c.op = "list_contacts")

Printed(message) == \E i \in 1..Len(out) : out[i] = message

\* the k-th reserve_contact call is made for the k-th ticked row, which
\* shows the pass at that position of suitable_passes
PassOfReserveCall(k) == suitable_passes[selected[k]]

\* the filter loop of schedule_contact has run in the current operation
FilterDone ==
    /\ task = "Schedule contacts"
    /\ \/ pc \in {"pass_time_question", "schedule_confirmation",
                  "reserve_contact"}
       \/ error \in {"UnboundLocalError", "ValueError"}
       \/ Printed("There are passes that meet the requirements.")
       \/ Printed("NO AVAILABLE passes")

\* get_contacts has returned its merged list in the current operation
ContactsFetched ==
    /\ selected_groundstations # <<>>
    /\ Len(all_passes) = Len(selected_groundstations)

PassLength(p) == p.endTime - p.startTime

Abs(n) == IF n < 0 THEN -n ELSE n

\* C1: every reserve_contact call carries a non-empty interval that lies
\* inside the interval of the selected pass, and that pass meets the
\* minimum elevation entered.
C1_ReservationInsidePass ==
    \A k \in 1..Len(ReserveCalls) :
        LET c == ReserveCalls[k]
            p == PassOfReserveCall(k)
        IN  /\ c.startTime < c.endTime
            /\ p.startTime <= c.startTime
            /\ c.endTime <= p.endTime
            /\ p.maximumElevation >= minimum_elevation

\* C2: in partial mode, for a pass of length D and a requested length R < D,
\* the reserved interval has length R within one second and is centred in
\* the pass, its start lying (D - R) / 2 whole seconds after the pass start.
C2_PartialCentred ==
    ~whole_duration_answer =>
        \A k \in 1..Len(ReserveCalls) :
            LET c == ReserveCalls[k]
                p == PassOfReserveCall(k)
                D == PassLength(p)
                R == contact_seconds[1]
            IN  R < D =>
                  /\ Abs((c.endTime - c.startTime) - R) <= 1
                  /\ Abs((c.startTime - p.startTime)
                         - (p.endTime - c.endTime)) <= 1
                  /\ c.startTime - p.startTime = (D - R) \div 2

\* C3: in whole-pass mode the interval sent to reserve_contact is the
\* selected pass's interval verbatim.
C3_WholePassVerbatim ==
    whole_duration_answer =>
        \A k \in 1..Len(ReserveCalls) :
            /\ ReserveCalls[k].startTime = PassOfReserveCall(k).startTime
            /\ ReserveCalls[k].endTime = PassOfReserveCall(k).endTime

\* what C4 says a pass must satisfy to be offered
Eligible(p) ==
    /\ p.maximumElevation >= minimum_elevation
    /\ whole_duration_answer \/ PassLength(p) > contact_seconds[1]

\* C4: the passes offered for selection are exactly the fetched passes whose
\* maximum elevation is at least the threshold and, when a duration is
\* required, whose length strictly exceeds it.
C4_FilterExact ==
    FilterDone =>
        /\ suitable_passes = SelectSeq(pass_list, Eligible)
        /\ pc = "pass_time_question" =>
              choices = [i \in 1..Len(suitable_passes) |->
                            PassRow(suitable_passes[i])]

\* a pass as long as the required duration, high enough, is left out while
\* another pass is offered
C4_Witness ==
    /\ pc = "pass_time_question"
    /\ ~whole_duration_answer
    /\ \E i \in 1..Len(pass_list) :
          /\ PassLength(pass_list[i]) = contact_seconds[1]
          /\ pass_list[i].maximumElevation >= minimum_elevation
          /\ \A j \in 1..Len(suitable_passes) :
                suitable_passes[j] # pass_list[i]
    /\ \E i \in 1..Len(pass_list) :
          pass_list[i].maximumElevation < minimum_elevation

MeetsElevation(p) == p.maximumElevation >= minimum_elevation

LongerThanRequired(p) == PassLength(p) > contact_seconds[1]

\* C5 as stated: the filter returns exactly the passes with
\* maxElevation >= E, in either mode.
C5_ExactlyByElevation ==
    FilterDone => suitable_passes = SelectSeq(pass_list, MeetsElevation)

\* C5 amended: in whole-pass mode the filter returns exactly the passes with
\* maxElevation >= E; when a duration is required it returns those of them
\* that are longer than the duration, so never a pass below E.
C5_ByElevationThenLength ==
    FilterDone =>
        IF whole_duration_answer
        THEN suitable_passes = SelectSeq(pass_list, MeetsElevation)
        ELSE suitable_passes =
                 SelectSeq(SelectSeq(pass_list, MeetsElevation),
                           LongerThanRequired)

\* whole-pass mode with a pass at the threshold kept and a lower one dropped
C5_Witness ==
    /\ FilterDone
    /\ whole_duration_answer
    /\ \E i \in 1..Len(suitable_passes) :
          suitable_passes[i].maximumElevation = minimum_elevation
    /\ \E i \in 1..Len(pass_list) :
          pass_list[i].maximumElevation < minimum_elevation

RECURSIVE SumOfLengths(_)
SumOfLengths(lists) ==
    IF lists = <<>> THEN 0 ELSE Len(Head(lists)) + SumOfLengths(Tail(lists))

Occurrences(s, x) == Cardinality({i \in 1..Len(s) : s[i] = x})

RECURSIVE OccurrencesIn(_, _)
OccurrencesIn(lists, x) ==
    IF lists = <<>> THEN 0
    ELSE Occurrences(Head(lists), x) + OccurrencesIn(Tail(lists), x)

\* C6: the list get_contacts returns is sorted non-decreasing by start time
\* and holds exactly the records of the per-station lists: as many as their
\* lengths add up to, each as often as the stations returned it.
C6_MergeSortedComplete ==
    ContactsFetched =>
        /\ \A i \in 1..(Len(pass_list) - 1) :
              pass_list[i].startTime <= pass_list[i + 1].startTime
        /\ Len(pass_list) = SumOfLengths(all_passes)
        /\ \A c \in Catalog :
              Occurrences(pass_list, c) = OccurrencesIn(all_passes, c)

\* two stations, lists that arrive out of order, two records of different
\* stations with the same start time
C6_Witness ==
    /\ ContactsFetched
    /\ Len(all_passes) = 2
    /\ pass_list # Flatten(all_passes)
    /\ \E i \in 1..(Len(pass_list) - 1) :
          /\ pass_list[i].startTime = pass_list[i + 1].startTime
          /\ pass_list[i].groundStation # pass_list[i + 1].groundStation

\* the lengths of all fetched passes
AllLengths == [i \in 1..Len(pass_list) |-> PassLength(pass_list[i])]

\* a duration below one hour as MM:SS
MinutesSeconds(d) == TwoDigits(d \div 60) \o <<":">> \o TwoDigits(d % 60)

\* C7: when the filter yields nothing, schedule_contact reports the longest
\* pass duration among all fetched passes, in both modes.
C7_LongestReported ==
    (FilterDone /\ suitable_passes = <<>> /\ pass_list # <<>>) =>
        /\ error = "none"
        /\ Printed("The longest pass duration in this window is")
        /\ longest_reported = MinutesSeconds(MaxOf(AllLengths))

\* C8: when no pass is eligible (schedule) or no contact is found (view,
\* cancel) the operation ends without an exception and without a reserve
\* or cancel call, and the program is back at the root menu.
C8_NothingFoundIsNoError ==
    (\/ FilterDone /\ suitable_passes = <<>>
     \/ /\ task \in {"View contacts", "Cancel contacts"}
        /\ ContactsFetched
        /\ pass_list = <<>>
        /\ pc # "view_contact")
    => /\ error = "none"
       /\ pc \in {"main", "quit"}
       /\ ReserveCalls = <<>>
       /\ CancelCalls = <<>>

\* every row cancel_contact can be handed is the row of a fetched record, so
\* its start time parses back to the start time of that record at least
EverySelectedRowMatches ==
    pc \in {"cancel_question", "cancel_confirmation", "cancel_contact"} =>
        \A i \in 1..Len(choices) :
            \E j \in 1..Len(pass_list) :
                pass_list[j].startTime =
                    Strptime(choices[i].date, choices[i].start)

\* C10: after a look-up that found no ARN the program is back at the root
\* menu, has not crashed, and has sent no request with the empty identifier.
C10_InvalidIdBackToMenu ==
    (Printed("Not a valid NORAD ID") \/ Printed("Not a valid profile name"))
    => /\ error = "none"
       /\ pc \in {"main", "quit"}
       /\ calls = <<>>

-----------------------------------------------------------------------------
(* API faults *)

IsPrefix(s, t) ==
    /\ Len(s) <= Len(t)
    /\ \A i \in 1..Len(s) : s[i] = t[i]

\* the contact ids the cancellation loop passes to cancel_contact in its
\* first n turns
RECURSIVE CancelledByRows(_)
CancelledByRows(n) ==
    IF n = 0
    THEN <<>>
    ELSE LET matching == MatchingContacts(pass_list, choices[selected[n]])
         IN  CancelledByRows(n - 1) \o
             [k \in 1..Len(matching) |-> matching[k].contactId]

CancelledIds == [k \in 1..Len(CancelCalls) |-> CancelCalls[k].contactId]

\* C11: a fault raised by an API call ends the process: nothing runs after
\* it, the failed call is not made again, the items before the failing one
\* of a reservation or cancellation loop have had their calls and the items
\* after it have had none.
C11_FaultEndsProcess ==
    error = "ClientError" =>
        /\ pc = "crashed"
        /\ ~ENABLED Next
        /\ failed_call \in ApiCallsAt("satellite_question")
                           \cup ApiCallsAt("profile_question")
                           \cup ApiCallsAt("ground_station_question")
                           \cup ApiCallsAt("list_contacts")
                           \cup ApiCallsAt("reserve_contact")
                           \cup ApiCallsAt("cancel_contact")
        /\ failed_call = "reserve_contact" =>
              /\ idx \in 1..Len(selected)
              /\ Len(ReserveCalls) = idx - 1
              /\ \A k \in 1..(idx - 1) :
                    ReserveCalls[k].groundStation =
                        PassOfReserveCall(k).groundStation
        /\ (task = "Cancel contacts" /\ confirmation_answer = "yes") =>
              /\ idx \in 1..Len(selected)
              /\ IsPrefix(CancelledByRows(idx - 1), CancelledIds)
              /\ IsPrefix(CancelledIds, CancelledByRows(idx))
              /\ CancelledIds # CancelledByRows(idx)

\* the reservation of the second of three selected passes has failed
C11_Witness ==
    /\ error = "ClientError"
    /\ failed_call = "reserve_contact"
    /\ Len(selected) = 3
    /\ idx = 2
    /\ Len(ReserveCalls) = 1

\* the cancellation of the second of three selected contacts has failed
C11_WitnessCancel ==
    /\ error = "ClientError"
    /\ failed_call = "cancel_contact"
    /\ Len(selected) = 3
    /\ idx = 2
    /\ Len(CancelCalls) >= 1

-----------------------------------------------------------------------------
(* back to the root menu *)

\* C12: as long as no API call has raised, the process has not ended except
\* by Quit in the root menu: every operation, however it ends, leads to the
\* root menu.  Stated for operations whose satellite and mission profile
\* were found; C10 has the others.
C12_OnlyQuitEndsProcess ==
    (/\ failed_call = "none"
     /\ ~Printed("Not a valid NORAD ID")
     /\ ~Printed("Not a valid profile name"))
    => /\ pc # "crashed"
       /\ error = "none"

-----------------------------------------------------------------------------
(* cancellation *)

\* a confirmed cancel operation, in its loop or after it
CancelConfirmed == task = "Cancel contacts" /\ confirmation_answer = "yes"

\* the turns of the cancellation loop that have been completed
CancelTurnsDone ==
    IF pc \in {"cancel_contact", "crashed"} THEN idx - 1 ELSE Len(selected)

\* C13: each selected row leads to at most one cancel_contact call, for the
\* first fetched record with the row's start time, also when two fetched
\* contacts on different ground stations start at the same time.
C13_FirstMatchOnly ==
    CancelConfirmed =>
        /\ Len(CancelCalls) <= CancelTurnsDone
        /\ \A k \in 1..Len(CancelCalls) :
              CancelCalls[k].contactId =
                  MatchingContacts(pass_list, choices[selected[k]])[1].contactId

\* the contact the k-th selected row displays: view_contact prints one row
\* per fetched record, in the order of the list
ContactOfSelected(k) == pass_list[selected[k]]

\* C14: in a confirmed cancel operation the cancel_contact calls are one per
\* selected row, for the contact the row displays: no contact of an
\* unselected row is cancelled, none is cancelled twice, and when the loop
\* has ended every selected contact has been cancelled.
C14_ExactlySelectedCancelled ==
    CancelConfirmed =>
        /\ \A k \in 1..Len(CancelledIds) :
              \E j \in 1..Len(selected) :
                 ContactOfSelected(j).contactId = CancelledIds[k]
        /\ \A k, l \in 1..Len(CancelledIds) :
              k # l => CancelledIds[k] # CancelledIds[l]
        /\ pc = "main" =>
              CancelledIds = [k \in 1..Len(selected) |->
                                 ContactOfSelected(k).contactId]

-----------------------------------------------------------------------------
(* confirmation *)

\* the turns of the reservation loop that have been completed
ReserveTurnsDone ==
    IF pc \in {"reserve_contact", "crashed"} THEN idx - 1 ELSE Len(selected)

NothingSelected ==
    \/ Printed("No passed selected. Exiting to main menu.")
    \/ Printed("No contacts selected. Exiting to main menu.")

\* C15: a reserve_contact or cancel_contact call is made only after a yes to
\* the confirmation of the operation; after a no, or with nothing selected,
\* the operation has made no such call and is back at the root menu; after
\* a yes the reservation loop makes one reserve_contact call per selected
\* pass, in the order of the selection, with the ground station of its row.
C15_CallsOnlyAfterYes ==
    /\ (ReserveCalls # <<>> \/ CancelCalls # <<>>) =>
          confirmation_answer = "yes"
    /\ (confirmation_answer = "no" \/ NothingSelected) =>
          /\ ReserveCalls = <<>>
          /\ CancelCalls = <<>>
          /\ pc \in {"main", "quit"}
    /\ (task = "Schedule contacts" /\ confirmation_answer = "yes") =>
          /\ CancelCalls = <<>>
          /\ Len(ReserveCalls) = ReserveTurnsDone
          /\ \A k \in 1..Len(ReserveCalls) :
                /\ ReserveCalls[k].groundStation =
                      choices[selected[k]].groundStation
                /\ selected[k] \in 1..Len(choices)
                /\ \A l \in 1..(k - 1) : selected[l] < selected[k]
    /\ task = "Cancel contacts" => ReserveCalls = <<>>

\* three passes were selected and confirmed, and the loop has reserved them
C15_Witness ==
    /\ task = "Schedule contacts"
    /\ confirmation_answer = "yes"
    /\ pc = "main"
    /\ Len(selected) = 3
    /\ Len(ReserveCalls) = 3
    /\ ReserveCalls[1].groundStation # ReserveCalls[3].groundStation

\* a selection was made and the confirmation was declined
C15_WitnessDeclined ==
    /\ confirmation_answer = "no"
    /\ selected # <<>>
    /\ pc = "main"

-----------------------------------------------------------------------------
(* get_contact_window *)

\* the most date entries one run of get_contact_window is followed through
MaxEntries == 6

scheduling_window_days == 6

\* datetime.date.today(), fixed so that the booking horizon lies in the
\* next month
Today == [year |-> 2024, month |-> 2, day |-> 26]

DaysInMonth(year, month) ==
    IF month \in {4, 6, 9, 11} THEN 30
    ELSE IF month # 2 THEN 31
    ELSE IF year % 4 = 0 /\ (year % 100 # 0 \/ year % 400 = 0) THEN 29
    ELSE 28

\* date + datetime.timedelta(days = 1)
NextDay(date) ==
    IF date.day < DaysInMonth(date.year, date.month)
    THEN [date EXCEPT !.day = date.day + 1]
    ELSE IF date.month < 12
    THEN [date EXCEPT !.month = date.month + 1, !.day = 1]
    ELSE [year |-> date.year + 1, month |-> 1, day |-> 1]

\* date + datetime.timedelta(days = days)
RECURSIVE AddDays(_, _)
AddDays(date, days) ==
    IF days = 0 THEN date ELSE AddDays(NextDay(date), days - 1)

\* characters are kept as their code points: "0" is 48, "-" is 45
Digit(n) == 48 + n

\* str(date) and strftime("%Y-%m-%d"): the ten characters YYYY-MM-DD
StrDate(date) ==
    <<Digit(date.year \div 1000), Digit((date.year \div 100) % 10),
      Digit((date.year \div 10) % 10), Digit(date.year % 10), 45,
      Digit(date.month \div 10), Digit(date.month % 10), 45,
      Digit(date.day \div 10), Digit(date.day % 10)>>

\* a <= b on Python strings
StrLessOrEqual(a, b) ==
    \/ a = b
    \/ \E i \in 1..(Len(b)) :
          /\ \A j \in 1..(i - 1) : j <= Len(a) /\ a[j] = b[j]
          /\ \/ i = Len(a) + 1
             \/ i <= Len(a) /\ a[i] < b[i]

\* a < b on Python strings: code points compared from the left, a proper
\* prefix is smaller
StrLess(a, b) ==
    \E i \in 1..(Len(b)) :
        /\ \A j \in 1..(i - 1) : j <= Len(a) /\ a[j] = b[j]
        /\ \/ i = Len(a) + 1
           \/ i <= Len(a) /\ a[i] < b[i]

\* the dates the user types: yesterday, today, inside the booking window,
\* its last day, the day after it
DateInputs ==
    {StrDate([year |-> 2024, month |-> 2, day |-> 25])}
    \cup {StrDate(AddDays(Today, days)) : days \in {0, 2, 6, 7}}

\* str(today + timedelta(days = scheduling_window_days))
scheduling_window_end == StrDate(AddDays(Today, scheduling_window_days))

\* everything get_contact_window leaves alone
operation_vars ==
    <<task, satellite_NORAD_ID, mission_profile_arn, satellite_arn,
      selected_groundstations, all_passes, pass_list, minimum_elevation,
      whole_duration_answer, contact_seconds, suitable_passes,
      pass_duration_list, choices, selected, idx, calls, out,
      longest_reported, error, confirmation_answer, failed_call>>

\* get_contacts at its call of get_contact_window: the identifiers are
\* resolved, the ground stations chosen, nothing has been fetched yet
InitWindow ==
    /\ task \in {"Schedule contacts", "View contacts", "Cancel contacts"}
    /\ direction = (IF task = "Schedule contacts" THEN "future" ELSE "all")
    /\ pc = "pass_window_start_question"
    /\ satellite_NORAD_ID = Satellite.noradSatelliteID
    /\ mission_profile_arn = <<"arn:mp", "/", "p1">>
    /\ satellite_arn = Satellite.satelliteArn
    /\ selected_groundstations = GroundStations
    /\ all_passes = <<>>
    /\ pass_list = <<>>
    /\ minimum_elevation = 0
    /\ whole_duration_answer = TRUE
    /\ contact_seconds = <<>>
    /\ suitable_passes = <<>>
    /\ pass_duration_list = <<>>
    /\ choices = <<>>
    /\ selected = <<>>
    /\ idx = 0
    /\ calls = <<>>
    /\ out = <<>>
    /\ longest_reported = <<>>
    /\ error = "none"
    /\ confirmation_answer = "none"
    /\ failed_call = "none"
    /\ pass_window_start = <<>>
    /\ pass_window_end = <<>>
    /\ stack = <<>>
    /\ entries = <<>>

\* get_contact_window(direction) called from inside itself: the frame that
\* calls goes on at resume when the call returns; its result is dropped
TryAgain(resume) ==
    /\ stack' = <<resume>> \o stack
    /\ pc' = "pass_window_start_question"

\* the start prompt; the answer goes to the global
PassWindowStartQuestion ==
    /\ pc = "pass_window_start_question"
    /\ Len(entries) < MaxEntries
    /\ \E answer \in DateInputs :
          /\ pass_window_start' = answer
          /\ entries' = Append(entries, [question |-> "start", date |-> answer])
    /\ pc' = "start_past_check"
    /\ UNCHANGED <<operation_vars, direction, pass_window_end, stack>>

\* if pass_window_start < today
StartPastCheck ==
    /\ pc = "start_past_check"
    /\ IF direction = "future" /\ StrLess(pass_window_start, StrDate(Today))
       THEN TryAgain("start_horizon_check")
       ELSE /\ pc' = "start_horizon_check"
            /\ UNCHANGED stack
    /\ UNCHANGED <<operation_vars, direction, pass_window_start,
                   pass_window_end, entries>>

\* if pass_window_start > scheduling_window_end
StartHorizonCheck ==
    /\ pc = "start_horizon_check"
    /\ IF /\ direction = "future"
          /\ StrLess(scheduling_window_end, pass_window_start)
       THEN TryAgain("pass_window_end_question")
       ELSE /\ pc' = "pass_window_end_question"
            /\ UNCHANGED stack
    /\ UNCHANGED <<operation_vars, direction, pass_window_start,
                   pass_window_end, entries>>

\* the end prompt; the answer goes to the global
PassWindowEndQuestion ==
    /\ pc = "pass_window_end_question"
    /\ Len(entries) < MaxEntries
    /\ \E answer \in DateInputs :
          /\ pass_window_end' = answer
          /\ entries' = Append(entries, [question |-> "end", date |-> answer])
    /\ pc' = "order_check"
    /\ UNCHANGED <<operation_vars, direction, pass_window_start, stack>>

\* if pass_window_end <= pass_window_start
OrderCheck ==
    /\ pc = "order_check"
    /\ IF ~StrLess(pass_window_start, pass_window_end)
       THEN TryAgain("end_horizon_check")
       ELSE /\ pc' = "end_horizon_check"
            /\ UNCHANGED stack
    /\ UNCHANGED <<operation_vars, direction, pass_window_start,
                   pass_window_end, entries>>

\* if pass_window_end > scheduling_window_end
EndHorizonCheck ==
    /\ pc = "end_horizon_check"
    /\ IF /\ direction = "future"
          /\ StrLess(scheduling_window_end, pass_window_end)
       THEN TryAgain("return")
       ELSE /\ pc' = "return"
            /\ UNCHANGED stack
    /\ UNCHANGED <<operation_vars, direction, pass_window_start,
                   pass_window_end, entries>>

\* return pass_window_start, pass_window_end: to the frame that called, or
\* from the outermost frame to get_contacts, which goes on to list_contacts
\* with the two globals as they are now
Return ==
    /\ pc = "return"
    /\ IF stack # <<>>
       THEN /\ pc' = Head(stack)
            /\ stack' = Tail(stack)
       ELSE /\ pc' = "list_contacts"
            /\ UNCHANGED stack
    /\ UNCHANGED <<operation_vars, direction, pass_window_start,
                   pass_window_end, entries>>

NextWindow ==
    \/ PassWindowStartQuestion
    \/ StartPastCheck
    \/ StartHorizonCheck
    \/ PassWindowEndQuestion
    \/ OrderCheck
    \/ EndHorizonCheck
    \/ Return

SpecWindow == InitWindow /\ [][NextWindow]_vars

-----------------------------------------------------------------------------
(* the window get_contact_window returns *)

\* the calendar date a YYYY-MM-DD string names
ParseDate(text) ==
    [year  |-> 1000 * (text[1] - 48) + 100 * (text[2] - 48)
               + 10 * (text[3] - 48) + (text[4] - 48),
     month |-> 10 * (text[6] - 48) + (text[7] - 48),
     day   |-> 10 * (text[9] - 48) + (text[10] - 48)]

\* d is an earlier day than e
Earlier(d, e) ==
    \/ d.year < e.year
    \/ d.year = e.year /\ d.month < e.month
    \/ d.year = e.year /\ d.month = e.month /\ d.day < e.day

\* the date given at the latest prompt of one kind
LastEntry(question) ==
    LET asked == SelectSeq(entries, LAMBDA e : e.question = question)
    IN  asked[Len(asked)].date

\* get_contact_window has returned to get_contacts
WindowReturned == pc = "list_contacts" /\ entries # <<>>

\* an entered date fails a check of get_contact_window
StartRejected(date) ==
    direction = "future"
    /\ (Earlier(ParseDate(date), Today)
        \/ Earlier(AddDays(Today, scheduling_window_days), ParseDate(date)))

EndRejected(start, end) ==
    \/ ~Earlier(ParseDate(start), ParseDate(end))
    \/ direction = "future"
       /\ Earlier(AddDays(Today, scheduling_window_days), ParseDate(end))

\* C16: the pair get_contact_window returns is the start and the end entered
\* last, the start is an earlier day than the end, and in "future" mode
\* the start is not before today and the end not after today + 6 days.
C16_ReturnedWindowValid ==
    WindowReturned =>
        /\ pass_window_start = LastEntry("start")
        /\ pass_window_end = LastEntry("end")
        /\ ~StartRejected(pass_window_start)
        /\ ~EndRejected(pass_window_start, pass_window_end)

\* a window was returned in "future" mode after a start and, later, an end
\* had been turned down
C16_Witness ==
    /\ WindowReturned
    /\ direction = "future"
    /\ \E i \in 1..Len(entries) :
          /\ entries[i].question = "start"
          /\ StartRejected(entries[i].date)
          /\ \E k \in (i + 2)..Len(entries) :
                /\ entries[k].question = "end"
                /\ entries[k - 1].question = "start"
                /\ EndRejected(entries[k - 1].date, entries[k].date)

\* the start date in force when entry i was made
StartBefore(i) ==
    LET asked == SelectSeq(SubSeq(entries, 1, i - 1),
                           LAMBDA e : e.question = "start")
    IN  asked[Len(asked)].date

\* entry i was turned down by a range or ordering check
EntryRejected(i) ==
    IF entries[i].question = "start"
    THEN StartRejected(entries[i].date)
    ELSE EndRejected(StartBefore(i), entries[i].date)

\* C17: when an entry has been turned down and the two entries after it are
\* a start and an end that pass every check, no further date is asked for:
\* the function returns that pair.
C17_NoPromptAfterValidPair ==
    \A i \in 1..(Len(entries) - 2) :
        (/\ EntryRejected(i)
         /\ entries[i + 1].question = "start"
         /\ ~StartRejected(entries[i + 1].date)
         /\ entries[i + 2].question = "end"
         /\ ~EndRejected(entries[i + 1].date, entries[i + 2].date))
        => Len(entries) = i + 2

====
